---- MODULE Spec2Model ----
(***************************************************************************)
(* Model of the OpticalFlowTracking class                                  *)
(* (include/optical_flow_velocity.hpp, src/optical_flow_velocity.cpp).     *)
(*                                                                         *)
(* The private members of the class are the state variables.  The three    *)
(* mutating public methods (_set_delta_t_, extractFeatures,                *)
(* calculateRealVel) are the actions; _has_features is a state function.   *)
(* The OpenCV routines the class calls (cvtColor, goodFeaturesToTrack,     *)
(* calcOpticalFlowPyrLK) are modelled by their contract on abstract        *)
(* images: an image is its channel count, its pixel dimensions and the     *)
(* scene it shows; a scene fixes the ordered list of corner candidates     *)
(* that pass the quality (0.1) and minimum-distance (8 px) criteria.       *)
(*                                                                         *)
(* Besides the program state the model keeps a record of the last call:    *)
(* its argument (arg), the member values before it (pre), what the         *)
(* tracking library produced (lk), the pixel velocities it computed        *)
(* (locals) and what the call returned (ret).                              *)
(*                                                                         *)
(* The callbacks of the Simulink block (mdlStart, mdlOutputs,              *)
(* mdlTerminate) are actions of their own: block holds the work vector,    *)
(* the error status, the output ports and the count of deletions of each   *)
(* allocation, host records the last callback.  A second tracker instance  *)
(* is held in other while the member variables describe the first one.     *)
(*                                                                         *)
(* Numbers are exact: a float is modelled by the rational it stands for    *)
(* (IEEE rounding is not modelled), and a real velocity by the term        *)
(* coef * tan(q * fov) with rational coef and q.                           *)
(***************************************************************************)
EXTENDS Integers, Sequences, FiniteSets, TLC

VARIABLES
    method,         \* _method
    delta_t,        \* _delta_t       (in units of 0.1 s)
    focal_length,   \* _focal_length  (micrometres)
    cmos_width,     \* _cmos_width    (micrometres)
    cmos_height,    \* _cmos_height   (micrometres)
    fov_h,          \* _fov_h
    fov_v,          \* _fov_v
    img_width,      \* _img_width
    img_height,     \* _img_height
    debug_count,    \* _debug_count
    last_im,        \* _last_im
    features,       \* _features
    fresh,          \* history: no extractFeatures or calculateRealVel call yet
    pre,            \* history: members before the last call
    arg,            \* history: arguments of the last call
    lk,             \* history: output of calcOpticalFlowPyrLK in the last call
    locals,         \* history: vels_x, vels_y of the last call
    ret,            \* history: what the last call returned
    host,           \* history: the last callback of the Simulink block
    block,          \* the SimStruct of the block: work pointers, error
                    \* status, output ports, and the heap they point into
    other           \* a second tracker instance, while the variables above
                    \* describe the first one (and the other way round)

members == <<method, delta_t, focal_length, cmos_width, cmos_height, fov_h,
             fov_v, img_width, img_height, debug_count, last_im, features>>
vars == <<method, delta_t, focal_length, cmos_width, cmos_height, fov_h,
          fov_v, img_width, img_height, debug_count, last_im, features,
          fresh, pre, arg, lk, locals, ret, host, block, other>>
\* the record of the last call of a method of the tracker
call_vars == <<fresh, pre, arg, lk, locals, ret>>

(***************************************************************************)
(* Bounds of the model.                                                    *)
(***************************************************************************)
\* maxCorners handed to goodFeaturesToTrack.  The source passes 1000; the
\* model scales the cap down so that scenes with more candidates than the
\* cap exist among the inputs.
MaxCorners == 2

\* calculateRealVel increments _debug_count without bound; the model stops
\* taking the tracking path once the counter has reached this value.
MaxDebugCount == 2

(***************************************************************************)
(* Input domains.                                                          *)
(***************************************************************************)
OPTICAL_FLOW_LUCAS_KANADE == 100

\* frame sizes <<cols, rows>>
Sizes == {<<64, 48>>, <<48, 32>>}

\* scene 0 shows nothing trackable, scene 1 one corner, scene 2 three
\* (scene 3, with two corners, is used by VelImages and BlockImages only)
Scenes == 0..2

Images == {[channels |-> c, cols |-> s[1], rows |-> s[2], scene |-> k] :
              c \in {1, 3}, s \in Sizes, k \in Scenes}

\* camera height above ground, metres (not validated: any sign)
Heights == {-1, 0, 2}

\* the height used where the velocity values are not at stake
MainHeights == {2}

\* frames for the runs about the velocity values: single channel, no
\* corner or two
VelImages == {[channels |-> 1, cols |-> s[1], rows |-> s[2], scene |-> k] :
                 s \in Sizes, k \in {0, 3}}

\* frame interval, in units of 0.1 s
DeltaTs == {1, 2}

\* per-feature pixel displacement <<dx, dy>> the tracker may report
Displacements == {<<0, 0>>, <<0, 8>>, <<-3, 0>>}

\* the displacements used where the velocity values are not at stake
MainDisplacements == {<<0, 0>>, <<0, 8>>}

\* where a point that was lost may be reported, relative to its old
\* location: the library does not say, so anywhere
LostDisplacements == {<<0, 0>>, <<5, -2>>}

\* what the tracker may report for one point when the scene moved by one of
\* moves: found (status 1) at any of these displacements, or lost (status
\* 0) and reported anywhere
PointOutcomes(moves) ==
    {[status |-> 1, d |-> d] : d \in moves}
        \cup {[status |-> 0, d |-> d] : d \in LostDisplacements}

\* cv::Mat() : the default-constructed, empty matrix
NoImage == [channels |-> 0, cols |-> 0, rows |-> 0, scene |-> 0]

\* cv::Mat::empty()
Empty(im) == im.cols = 0 \/ im.rows = 0

(***************************************************************************)
(* The OpenCV routines, by contract.                                       *)
(***************************************************************************)
\* The corner candidates of a scene that pass the quality level and the
\* minimum distance, strongest first.
CornerCandidates(scene) ==
    CASE scene = 0 -> <<>>
      [] scene = 1 -> << <<8, 8>> >>
      [] scene = 2 -> << <<8, 8>>, <<24, 16>>, <<40, 24>> >>
      [] OTHER     -> << <<16, 8>>, <<32, 24>> >>

\* if (img.channels() == 3) cvtColor(img, gray, COLOR_BGR2GRAY);
\* else gray = img.clone();
CvtGray(img) ==
    IF img.channels = 3 THEN [img EXCEPT !.channels = 1] ELSE img

\* first n elements of s (all of s when it is shorter)
Take(s, n) == SubSeq(s, 1, IF Len(s) < n THEN Len(s) ELSE n)

\* mutant: the cap on the number of corners is not applied
GoodFeaturesToTrack_nocap(gray, maxCorners) ==
    CornerCandidates(gray.scene)

\* cv::goodFeaturesToTrack(gray, corners, maxCorners, 0.1, 8.0, Mat(), 2):
\* the strongest candidates, at most maxCorners of them.
GoodFeaturesToTrack(gray, maxCorners) ==
    Take(CornerCandidates(gray.scene), maxCorners)

\* the value of lk when calcOpticalFlowPyrLK was not called
NoLK == [ran |-> FALSE, threw |-> FALSE, new |-> <<>>, status |-> <<>>]

\* mutant: frames of different size are tracked like frames of one size
CalcOpticalFlowPyrLK_anysize(prev, next, prevPts, moves) ==
    IF Len(prevPts) = 0
    THEN {[ran |-> TRUE, threw |-> TRUE, new |-> <<>>, status |-> <<>>]}
    ELSE {[ran |-> TRUE, threw |-> FALSE,
           new |-> [i \in 1..Len(prevPts) |->
                      <<prevPts[i][1] + o[i].d[1], prevPts[i][2] + o[i].d[2]>>],
           status |-> [i \in 1..Len(prevPts) |-> o[i].status]] :
             o \in [1..Len(prevPts) -> PointOutcomes(moves)]}

\* cv::calcOpticalFlowPyrLK(prev, next, prevPts, nextPts, status, err, ...):
\* the set of outcomes the library may produce.  An empty std::vector of
\* points reaches the library as an empty matrix, which fails its check of
\* the point list (CV_Assert(checkVector(2, CV_32F, true) >= 0)):
\* cv::Exception; frames of different size raise cv::Exception; otherwise
\* every point gets a new location and a status of 0 or 1.
\* moves is the set of displacements the motion between the frames allows.
CalcOpticalFlowPyrLK(prev, next, prevPts, moves) ==
    IF Len(prevPts) = 0
    THEN {[ran |-> TRUE, threw |-> TRUE, new |-> <<>>, status |-> <<>>]}
    ELSE IF prev.cols # next.cols \/ prev.rows # next.rows
    THEN {[ran |-> TRUE, threw |-> TRUE, new |-> <<>>, status |-> <<>>]}
    ELSE {[ran |-> TRUE, threw |-> FALSE,
           new |-> [i \in 1..Len(prevPts) |->
                      <<prevPts[i][1] + o[i].d[1], prevPts[i][2] + o[i].d[2]>>],
           status |-> [i \in 1..Len(prevPts) |-> o[i].status]] :
             o \in [1..Len(prevPts) -> PointOutcomes(moves)]}

(***************************************************************************)
(* Arithmetic of the velocity conversion.                                  *)
(***************************************************************************)
Abs(n) == IF n < 0 THEN -n ELSE n

RECURSIVE Gcd(_, _)
Gcd(a, b) == IF b = 0 THEN a ELSE Gcd(b, a % b)

\* the rational n / d in lowest terms with a positive denominator; a zero
\* denominator gives what float division gives: <<1, 0>> and <<-1, 0>> are
\* the infinities, <<0, 0>> is NaN
RatNorm(n, d) ==
    IF d = 0 THEN <<IF n > 0 THEN 1 ELSE IF n < 0 THEN -1 ELSE 0, 0>>
    ELSE LET g == Gcd(Abs(n), Abs(d))
             sg == IF d < 0 THEN -1 ELSE 1
         IN  <<sg * (n \div g), sg * (d \div g)>>

RatMul(a, b) == RatNorm(a[1] * b[1], a[2] * b[2])

RatNeg(a) == <<-a[1], a[2]>>

\* 2.0f * std::atan(sensor / (2.0f * focal))
Fov(sensor, focal) == [two_atan_of |-> RatNorm(sensor, 2 * focal)]

\* the real number 0
VZero == [coef |-> <<0, 1>>, q |-> <<0, 1>>, fov |-> [two_atan_of |-> <<0, 1>>]]

\* the real number coef * tan(q * fov), in canonical form: tan(0) = 0 and
\* tan(-x) = -tan(x)
TanTimes(coef, q, fov) ==
    IF coef[2] = 0 \/ q[2] = 0 \/ fov.two_atan_of[2] = 0
    THEN [coef |-> coef, q |-> q, fov |-> fov]
    ELSE IF coef[1] = 0 \/ q[1] = 0 \/ fov.two_atan_of[1] = 0
    THEN VZero
    ELSE IF q[1] < 0
    THEN [coef |-> RatNeg(coef), q |-> RatNeg(q), fov |-> fov]
    ELSE [coef |-> coef, q |-> q, fov |-> fov]

\* k times the real number v
VScale(k, v) == TanTimes(RatMul(<<k, 1>>, v.coef), v.q, v.fov)

\* d / _delta_t, in pixels per second (dt is in units of 0.1 s)
PixelVel(d, dt) == RatNorm(10 * d, dt)

\* vels[i] * fov / static_cast<float>(dim): q * fov radians per second
AngularVel(pv, fov, dim) == [q |-> RatMul(pv, RatNorm(1, dim)), fov |-> fov]

\* mutant: the height is applied to the angle, not to its tangent
RealVel_inside(height, av, dt) ==
    TanTimes(RatNorm(10, dt),
             RatMul(<<height, 1>>, RatMul(av.q, RatNorm(dt, 10))), av.fov)

\* height * std::tan(angular_vel * _delta_t) / _delta_t
RealVel(height, av, dt) ==
    TanTimes(RatNorm(10 * height, dt), RatMul(av.q, RatNorm(dt, 10)), av.fov)

(***************************************************************************)
(* The class.                                                              *)
(***************************************************************************)
\* the mutable members, as the history variable pre records them
Snapshot ==
    [delta_t |-> delta_t, img_width |-> img_width, img_height |-> img_height,
     debug_count |-> debug_count, last_im |-> last_im, features |-> features,
     fresh |-> fresh]

NoArg == [img |-> NoImage, height |-> 0, delta_t |-> 0]

\* vels_x, vels_y of a call that computed none
NoLocals == [vels_x |-> <<>>, vels_y |-> <<>>]

\* what a call hands back: the tuple of calculateRealVel, or nothing (void
\* methods, and a call left by an exception: threw = TRUE)
Returned(op, threw, vx, vy, new, old, success) ==
    [op |-> op, threw |-> threw, v_est_x |-> vx, v_est_y |-> vy,
     new_features |-> new, old_features |-> old, success |-> success]

\* the tracker was not called through the Simulink block
NoHost == [op |-> "none", delta_t_in |-> 0, delta_t_before |-> 0,
           caught |-> FALSE, vel_x |-> <<>>, vel_y |-> <<>>,
           tracker |-> 0, image |-> 0, called |-> FALSE,
           error_set |-> FALSE, valid |-> 0, writes |-> {}]

\* the tracker is not owned by a Simulink block
NoBlock == [pwork0 |-> 0, pwork1 |-> 0, error |-> FALSE, num_rows |-> 0,
            num_cols |-> 0, out |-> <<>>, num_features |-> 0, runs |-> 0,
            frees0 |-> <<>>, frees1 |-> <<>>, in_order |-> TRUE]

\* there is no second tracker instance
NoOther == [id |-> 0]

\* mutant: the two fields of view are computed from the wrong sensor side
Construct_swapped(m, dt, focal, width, height) ==
    /\ method = m
    /\ delta_t = dt
    /\ focal_length = focal
    /\ cmos_width = width
    /\ cmos_height = height
    /\ fov_h = Fov(height, focal)
    /\ fov_v = Fov(width, focal)
    /\ img_width = 0
    /\ img_height = 0
    /\ debug_count = 0
    /\ last_im = NoImage
    /\ features = <<>>
    /\ fresh = TRUE
    /\ pre = [delta_t |-> dt, img_width |-> 0, img_height |-> 0,
              debug_count |-> 0, last_im |-> NoImage, features |-> <<>>,
              fresh |-> TRUE]
    /\ arg = NoArg
    /\ lk = NoLK
    /\ locals = NoLocals
    /\ ret = Returned("construct", FALSE, <<>>, <<>>, <<>>, <<>>, FALSE)

\* OpticalFlowTracking::OpticalFlowTracking(method, delta_t,
\*     camera_focal_length, cmos_width, cmos_height): the state it leaves.
\* Lengths are in micrometres.  No argument is checked.
Construct(m, dt, focal, width, height) ==
    /\ method = m
    /\ delta_t = dt
    /\ focal_length = focal
    /\ cmos_width = width
    /\ cmos_height = height
    /\ fov_h = Fov(width, focal)
    /\ fov_v = Fov(height, focal)
    /\ img_width = 0
    /\ img_height = 0
    /\ debug_count = 0
    /\ last_im = NoImage
    /\ features = <<>>
    /\ fresh = TRUE
    /\ pre = [delta_t |-> dt, img_width |-> 0, img_height |-> 0,
              debug_count |-> 0, last_im |-> NoImage, features |-> <<>>,
              fresh |-> TRUE]
    /\ arg = NoArg
    /\ lk = NoLK
    /\ locals = NoLocals
    /\ ret = Returned("construct", FALSE, <<>>, <<>>, <<>>, <<>>, FALSE)

\* a tracker constructed for a camera of focal length 4 mm with a sensor of
\* 6.4 mm x 4.8 mm
Init ==
    /\ \E dt \in DeltaTs :
          Construct(OPTICAL_FLOW_LUCAS_KANADE, dt, 4000, 6400, 4800)
    /\ host = NoHost
    /\ block = NoBlock
    /\ other = NoOther

\* <<focal length, sensor width, sensor height>> handed to the constructor,
\* valid or not
CameraConfigs ==
    {<<4000, 6400, 4800>>, <<0, 6400, 4800>>, <<4000, -6400, 4800>>,
     <<4000, 6400, 0>>}

\* a tracker constructed with any of these
InitAnyConfig ==
    /\ \E dt \in DeltaTs, c \in CameraConfigs :
          Construct(OPTICAL_FLOW_LUCAS_KANADE, dt, c[1], c[2], c[3])
    /\ host = NoHost
    /\ block = NoBlock
    /\ other = NoOther

\* bool OpticalFlowTracking::_has_features()
HasFeatures == features # <<>>

\* void OpticalFlowTracking::_set_delta_t_(double delta_t_)
SetDeltaT(d) ==
    /\ delta_t' = d
    /\ pre' = Snapshot
    /\ arg' = [img |-> NoImage, height |-> 0, delta_t |-> d]
    /\ lk' = NoLK
    /\ locals' = NoLocals
    /\ ret' = Returned("set_delta_t", FALSE, <<>>, <<>>, <<>>, <<>>, FALSE)
    /\ host' = NoHost
    /\ UNCHANGED <<block, other>>
    /\ UNCHANGED <<method, focal_length, cmos_width, cmos_height, fov_h, fov_v,
                   img_width, img_height, debug_count, last_im, features,
                   fresh>>

\* mutant: the frame is not stored with the features detected in it
ExtractFeaturesBody_noframe(img) ==
    /\ features' = GoodFeaturesToTrack(CvtGray(img), MaxCorners)
    /\ UNCHANGED <<last_im, img_width, img_height>>

\* mutant: an empty detection keeps the features held before
ExtractFeaturesBody_keep(img) ==
    LET gray == CvtGray(img)
        found == GoodFeaturesToTrack(gray, MaxCorners)
    IN  IF found = <<>>
        THEN UNCHANGED <<features, last_im, img_width, img_height>>
        ELSE /\ features' = found
             /\ last_im' = gray
             /\ img_width' = gray.cols
             /\ img_height' = gray.rows

\* mutant: the frame is stored also when nothing was detected in it
ExtractFeaturesBody_always(img) ==
    LET gray == CvtGray(img)
    IN  /\ features' = GoodFeaturesToTrack(gray, MaxCorners)
        /\ last_im' = gray
        /\ img_width' = gray.cols
        /\ img_height' = gray.rows

\* mutant: width and height are taken from the wrong dimension
ExtractFeaturesBody_swapdims(img) ==
    LET gray == CvtGray(img)
        found == GoodFeaturesToTrack(gray, MaxCorners)
    IN  /\ features' = found
        /\ IF found = <<>>
           THEN UNCHANGED <<last_im, img_width, img_height>>
           ELSE /\ last_im' = gray
                /\ img_width' = gray.rows
                /\ img_height' = gray.cols

\* mutant: the frame is stored without its dimensions
ExtractFeaturesBody_nodims(img) ==
    LET gray == CvtGray(img)
        found == GoodFeaturesToTrack(gray, MaxCorners)
    IN  /\ features' = found
        /\ IF found = <<>>
           THEN UNCHANGED <<last_im, img_width, img_height>>
           ELSE /\ last_im' = gray
                /\ UNCHANGED <<img_width, img_height>>

\* the body of extractFeatures: what it does to _features, _last_im,
\* _img_width and _img_height
ExtractFeaturesBody(img) ==
    LET gray == CvtGray(img)
        found == GoodFeaturesToTrack(gray, MaxCorners)
    IN  /\ features' = found
        /\ IF found = <<>>
           THEN UNCHANGED <<last_im, img_width, img_height>>
           ELSE /\ last_im' = gray
                /\ img_width' = gray.cols
                /\ img_height' = gray.rows

\* void OpticalFlowTracking::extractFeatures(const cv::Mat &img)
ExtractFeatures(img) ==
    /\ ExtractFeaturesBody(img)
    /\ fresh' = FALSE
    /\ pre' = Snapshot
    /\ arg' = [img |-> img, height |-> 0, delta_t |-> 0]
    /\ lk' = NoLK
    /\ locals' = NoLocals
    /\ ret' = Returned("extract", FALSE, <<>>, <<>>, <<>>, <<>>, FALSE)
    /\ host' = NoHost
    /\ UNCHANGED <<block, other>>
    /\ UNCHANGED <<method, delta_t, focal_length, cmos_width, cmos_height,
                   fov_h, fov_v, debug_count>>

NoSamples == [vels_x |-> <<>>, vels_y |-> <<>>, old_features |-> <<>>]

\* mutant: the status of a point is not looked at
RECURSIVE PixelVelocities_nostatus(_, _, _, _, _, _)
PixelVelocities_nostatus(i, old, new, status, dt, acc) ==
    IF i > Len(new) THEN acc
    ELSE PixelVelocities_nostatus(i + 1, old, new, status, dt,
            [vels_x |-> Append(acc.vels_x, PixelVel(new[i][2] - old[i][2], dt)),
             vels_y |-> Append(acc.vels_y, PixelVel(-(new[i][1] - old[i][1]), dt)),
             old_features |-> Append(acc.old_features, old[i])])

\* mutant: the axes are not remapped (dx to X, dy to Y)
RECURSIVE PixelVelocities_noremap(_, _, _, _, _, _)
PixelVelocities_noremap(i, old, new, status, dt, acc) ==
    IF i > Len(new) THEN acc
    ELSE IF status[i] # 0
    THEN PixelVelocities_noremap(i + 1, old, new, status, dt,
            [vels_x |-> Append(acc.vels_x, PixelVel(new[i][1] - old[i][1], dt)),
             vels_y |-> Append(acc.vels_y, PixelVel(new[i][2] - old[i][2], dt)),
             old_features |-> Append(acc.old_features, old[i])])
    ELSE PixelVelocities_noremap(i + 1, old, new, status, dt, acc)

\* mutant: the new location is used where the displacement is meant
RECURSIVE PixelVelocities_absolute(_, _, _, _, _, _)
PixelVelocities_absolute(i, old, new, status, dt, acc) ==
    IF i > Len(new) THEN acc
    ELSE IF status[i] # 0
    THEN PixelVelocities_absolute(i + 1, old, new, status, dt,
            [vels_x |-> Append(acc.vels_x, PixelVel(new[i][2], dt)),
             vels_y |-> Append(acc.vels_y, PixelVel(-new[i][1], dt)),
             old_features |-> Append(acc.old_features, old[i])])
    ELSE PixelVelocities_absolute(i + 1, old, new, status, dt, acc)

\* the loop over new_features of calculateRealVel, from index i on:
\* the pixel velocities and old locations of the points with status set
RECURSIVE PixelVelocities(_, _, _, _, _, _)
PixelVelocities(i, old, new, status, dt, acc) ==
    IF i > Len(new) THEN acc
    ELSE IF status[i] # 0
    THEN LET dx == new[i][1] - old[i][1]
             dy == new[i][2] - old[i][2]
         IN  PixelVelocities(i + 1, old, new, status, dt,
                [vels_x |-> Append(acc.vels_x, PixelVel(dy, dt)),
                 vels_y |-> Append(acc.vels_y, PixelVel(-dx, dt)),
                 old_features |-> Append(acc.old_features, old[i])])
    ELSE PixelVelocities(i + 1, old, new, status, dt, acc)

\* mutant: both axes divide by the frame width
RealVelocities_width(vels, fov, dim, height, dt) ==
    [i \in 1..Len(vels) |->
        RealVel(height, AngularVel(vels[i], fov, img_width), dt)]

\* the conversion loop of calculateRealVel: one real velocity per pixel
\* velocity, along the axis with field of view fov and dimension dim
RealVelocities(vels, fov, dim, height, dt) ==
    [i \in 1..Len(vels) |-> RealVel(height, AngularVel(vels[i], fov, dim), dt)]

\* mutant: the tracked points are carried over as the next feature set
Reseed_carry(current_gray, new_features) ==
    /\ features' = new_features
    /\ last_im' = current_gray

\* mutant: a frame without features leaves the old feature set in place
Reseed_keep(current_gray, new_features) ==
    LET found == GoodFeaturesToTrack(current_gray, MaxCorners)
    IN  /\ features' = IF found = <<>> THEN features ELSE found
        /\ last_im' = current_gray

\* mutant: a frame without features is not stored
Reseed_guarded(current_gray, new_features) ==
    LET found == GoodFeaturesToTrack(current_gray, MaxCorners)
    IN  /\ features' = found
        /\ last_im' = IF found = <<>> THEN NoImage ELSE current_gray

\* mutant: the features are detected in the new frame, the old frame is kept
Reseed_stale(current_gray, new_features) ==
    /\ features' = GoodFeaturesToTrack(current_gray, MaxCorners)
    /\ UNCHANGED last_im

\* the re-seed of calculateRealVel: _features.clear();
\* goodFeaturesToTrack(current_gray, _features, ...); _last_im = current_gray;
Reseed(current_gray, new_features) ==
    /\ features' = GoodFeaturesToTrack(current_gray, MaxCorners)
    /\ last_im' = current_gray

\* mutant: the first call returns without seeding the tracker
FirstCall_noseed(img) ==
    /\ UNCHANGED <<features, last_im, img_width, img_height>>
    /\ lk' = NoLK
    /\ locals' = NoLocals
    /\ ret' = Returned("calc", FALSE, <<>>, <<>>, <<>>, <<>>, TRUE)
    /\ UNCHANGED debug_count

\* calculateRealVel when _last_im.empty(): extractFeatures(img) and
\* return {{}, {}, {}, {}, true}
FirstCall(img) ==
    /\ ExtractFeaturesBody(img)
    /\ lk' = NoLK
    /\ locals' = NoLocals
    /\ ret' = Returned("calc", FALSE, <<>>, <<>>, <<>>, <<>>, TRUE)
    /\ UNCHANGED debug_count

\* calculateRealVel when a previous frame is held: gray conversion,
\* tracking, pixel velocities, re-seed, real velocities, return; dt is
\* _delta_t as the call finds it
Track(dt, img, height, moves) ==
    LET current_gray == CvtGray(img)
    IN  /\ debug_count < MaxDebugCount
        /\ debug_count' = debug_count + 1
        /\ \E out \in CalcOpticalFlowPyrLK(last_im, current_gray, features, moves) :
             /\ lk' = out
             /\ IF out.threw
                THEN \* cv::Exception leaves the method; nothing is returned
                     /\ locals' = NoLocals
                     /\ ret' = Returned("calc", TRUE, <<>>, <<>>, <<>>, <<>>, FALSE)
                     /\ UNCHANGED <<features, last_im, img_width, img_height>>
                ELSE LET s == PixelVelocities(1, features, out.new, out.status,
                                              dt, NoSamples)
                     IN  /\ Reseed(current_gray, out.new)
                         /\ UNCHANGED <<img_width, img_height>>
                         /\ locals' = [vels_x |-> s.vels_x, vels_y |-> s.vels_y]
                         /\ ret' = Returned("calc", FALSE,
                                RealVelocities(s.vels_x, fov_v, img_height,
                                               height, dt),
                                RealVelocities(s.vels_y, fov_h, img_width,
                                               height, dt),
                                out.new, s.old_features, TRUE)

\* the body of calculateRealVel(img, height) entered with _delta_t = dt
CalculateRealVelBody(dt, img, height, moves) ==
    /\ fresh' = FALSE
    /\ pre' = [Snapshot EXCEPT !.delta_t = dt]
    /\ arg' = [img |-> img, height |-> height, delta_t |-> 0]
    /\ UNCHANGED <<method, focal_length, cmos_width, cmos_height, fov_h, fov_v>>
    /\ IF Empty(last_im) THEN FirstCall(img) ELSE Track(dt, img, height, moves)

\* std::tuple<...> OpticalFlowTracking::calculateRealVel(img, height)
CalculateRealVel(img, height, moves) ==
    /\ CalculateRealVelBody(delta_t, img, height, moves)
    /\ UNCHANGED delta_t
    /\ host' = NoHost
    /\ UNCHANGED <<block, other>>

\* any call of a public method, with frames from imgs, heights from hs and
\* frame-to-frame motion from moves
NextOver(imgs, hs, moves) ==
    \/ \E d \in DeltaTs : SetDeltaT(d)
    \/ \E img \in imgs : ExtractFeatures(img)
    \/ \E img \in imgs, height \in hs : CalculateRealVel(img, height, moves)

Next == NextOver(Images, MainHeights, MainDisplacements)

Spec == Init /\ [][Next]_vars

\* the runs about the velocity values
NextVel == NextOver(VelImages, Heights, Displacements)

VelSpec == Init /\ [][NextVel]_vars

\* the number of mdlStart calls the model follows
MaxRuns == 2

\* ssGetOutputPortDimensions(S, 0): the velocity output is 2 x num_cols.
\* The source sets 2 x 1000, the cap of the feature detection; the model
\* takes capacities below, at and above the (scaled) cap.
PortRows == 2
PortCols == {MaxCorners - 1, MaxCorners, MaxCorners + 1}

\* the velocity output port before its first write
ZeroOutput(rows, cols) == [o \in 0..(rows * cols - 1) |-> VZero]

\* mdlStart of the first run: the tracker of the block is constructed with
\* method 100 and a frame interval of 1.0 s, from the block's camera
\* parameters, the image buffer is allocated, and both pointers are stored
\* in the work vector.  An allocation is named by the run that made it.
\* cols are the widths the velocity output port may have.
MdlStart(cols) ==
    /\ Construct(OPTICAL_FLOW_LUCAS_KANADE, 10, 4000, 6400, 4800)
    /\ host = [NoHost EXCEPT !.op = "mdlStart"]
    /\ \E n \in cols :
          block = [pwork0 |-> 1, pwork1 |-> 1, error |-> FALSE,
                   num_rows |-> PortRows, num_cols |-> n,
                   out |-> ZeroOutput(PortRows, n), num_features |-> 0,
                   runs |-> 1, frees0 |-> <<0>>, frees1 |-> <<0>>,
                   in_order |-> TRUE]
    /\ other = NoOther

\* a later mdlStart: it allocates a tracker and an image buffer and stores
\* the pointers in the work vector, whatever the work vector held; the error
\* status is not touched.  in_order records whether every mdlStart so far
\* found both work pointers null, that is, whether the callbacks came in
\* the order of the block's lifecycle (mdlStart once at the start of a
\* simulation, mdlTerminate at its end).
MdlStartAgain ==
    /\ block.runs < MaxRuns
    /\ method' = OPTICAL_FLOW_LUCAS_KANADE
    /\ delta_t' = 10
    /\ focal_length' = 4000
    /\ cmos_width' = 6400
    /\ cmos_height' = 4800
    /\ fov_h' = Fov(6400, 4000)
    /\ fov_v' = Fov(4800, 4000)
    /\ img_width' = 0
    /\ img_height' = 0
    /\ debug_count' = 0
    /\ last_im' = NoImage
    /\ features' = <<>>
    /\ fresh' = TRUE
    /\ pre' = [delta_t |-> 10, img_width |-> 0, img_height |-> 0,
               debug_count |-> 0, last_im |-> NoImage, features |-> <<>>,
               fresh |-> TRUE]
    /\ arg' = NoArg
    /\ lk' = NoLK
    /\ locals' = NoLocals
    /\ ret' = Returned("construct", FALSE, <<>>, <<>>, <<>>, <<>>, FALSE)
    /\ host' = [NoHost EXCEPT !.op = "mdlStart"]
    /\ block' = [block EXCEPT !.pwork0 = block.runs + 1,
                              !.pwork1 = block.runs + 1,
                              !.runs = block.runs + 1,
                              !.frees0 = Append(@, 0),
                              !.frees1 = Append(@, 0),
                              !.in_order = @ /\ block.pwork0 = 0
                                             /\ block.pwork1 = 0]
    /\ UNCHANGED other

\* the frames a block with a 64 x 48 image buffer hands to the tracker
\* (cv::Mat(height, width, CV_8UC1) filled from the image input)
BlockImages ==
    {[channels |-> 1, cols |-> 64, rows |-> 48, scene |-> s] : s \in {0, 3}}

\* the values of the delta-time input of the block
BlockDeltaTs == {2, 10}

\* mutant: the work pointers are used unchecked
WorkPointersSet_unchecked(p0, p1) == TRUE

\* tracker == nullptr and image == nullptr both fail
WorkPointersSet(p0, p1) == p0 # 0 /\ p1 # 0

\* mutant: the step computes first and sets the frame interval afterwards
SetAndCompute_late(dt_in, img, moves) ==
    /\ CalculateRealVelBody(delta_t, img, 1, moves)
    /\ delta_t' = dt_in

\* tracker->_set_delta_t_(delta_t_ptr[0][0]), the image input copied to the
\* buffer, tracker->calculateRealVel(*image, 1.0f)
SetAndCompute(dt_in, img, moves) ==
    /\ delta_t' = dt_in
    /\ CalculateRealVelBody(dt_in, img, 1, moves)

\* mutant: every returned velocity is written
ValidFeatures_nomin(n, num_cols) == n

\* std::min(static_cast<int>(vel_x.size()), static_cast<int>(num_cols))
ValidFeatures(n, num_cols) == IF n < num_cols THEN n ELSE num_cols

\* the writes to output_velocities, as <<offset, value>> pairs: columns
\* 0..valid-1 get the velocities, columns valid..num_cols-1 zeros
OutputWrites(vel_x, vel_y, num_rows, num_cols) ==
    LET valid == ValidFeatures(Len(vel_x), num_cols)
    IN  {<<0 + i * num_rows, vel_x[i + 1]>> : i \in 0..(valid - 1)}
          \cup {<<1 + i * num_rows, vel_y[i + 1]>> : i \in 0..(valid - 1)}
          \cup {<<0 + i * num_rows, VZero>> : i \in valid..(num_cols - 1)}
          \cup {<<1 + i * num_rows, VZero>> : i \in valid..(num_cols - 1)}

\* the output port after these writes (a write outside the port does not
\* land on it)
Written(out, writes) ==
    [o \in DOMAIN out |->
        IF \E w \in writes : w[1] = o
        THEN (CHOOSE w \in writes : w[1] = o)[2]
        ELSE out[o]]

\* mutant: an exception of the library ends the step with an error status
OutputStage_abort(dt_in, threw, vel_x, vel_y) ==
    IF threw
    THEN /\ block' = [block EXCEPT !.error = TRUE]
         /\ host' = [op |-> "mdlOutputs", delta_t_in |-> dt_in,
                     delta_t_before |-> delta_t, caught |-> FALSE,
                     vel_x |-> <<>>, vel_y |-> <<>>,
                     tracker |-> block.pwork0, image |-> block.pwork1,
                     called |-> TRUE, error_set |-> TRUE, valid |-> 0,
                     writes |-> {}]
    ELSE LET writes == OutputWrites(vel_x, vel_y, block.num_rows, block.num_cols)
             valid == ValidFeatures(Len(vel_x), block.num_cols)
         IN  /\ block' = [block EXCEPT !.out = Written(@, writes),
                                       !.num_features = valid]
             /\ host' = [op |-> "mdlOutputs", delta_t_in |-> dt_in,
                         delta_t_before |-> delta_t, caught |-> FALSE,
                         vel_x |-> vel_x, vel_y |-> vel_y,
                         tracker |-> block.pwork0, image |-> block.pwork1,
                         called |-> TRUE, error_set |-> FALSE,
                         valid |-> valid,
                         writes |-> {w[1] : w \in writes}]

\* mdlOutputs after the call of the tracker: the catch clause clears the
\* velocities, then the velocity and number-of-features outputs are written
OutputStage(dt_in, threw, vel_x, vel_y) ==
    LET vx == IF threw THEN <<>> ELSE vel_x
        vy == IF threw THEN <<>> ELSE vel_y
        writes == OutputWrites(vx, vy, block.num_rows, block.num_cols)
        valid == ValidFeatures(Len(vx), block.num_cols)
    IN  /\ block' = [block EXCEPT !.out = Written(@, writes),
                                  !.num_features = valid]
        /\ host' = [op |-> "mdlOutputs", delta_t_in |-> dt_in,
                    delta_t_before |-> delta_t, caught |-> threw,
                    vel_x |-> vx, vel_y |-> vy,
                    tracker |-> block.pwork0, image |-> block.pwork1,
                    called |-> TRUE, error_set |-> FALSE, valid |-> valid,
                    writes |-> {w[1] : w \in writes}]

\* mdlOutputs: with a null work pointer ssSetErrorStatus and return;
\* otherwise set the frame interval, fill the image buffer, call the
\* tracker in a try block, and write the outputs
MdlOutputs(dt_in, img, moves) ==
    /\ UNCHANGED other
    /\ IF WorkPointersSet(block.pwork0, block.pwork1)
       THEN /\ SetAndCompute(dt_in, img, moves)
            /\ OutputStage(dt_in, ret'.threw, ret'.v_est_x, ret'.v_est_y)
       ELSE /\ block' = [block EXCEPT !.error = TRUE]
            /\ host' = [NoHost EXCEPT !.op = "mdlOutputs",
                                      !.delta_t_in = dt_in,
                                      !.delta_t_before = delta_t,
                                      !.tracker = block.pwork0,
                                      !.image = block.pwork1,
                                      !.error_set = TRUE]
            /\ UNCHANGED members
            /\ UNCHANGED call_vars

\* mutant: the objects are deleted and the work pointers keep their values
MdlTerminate_dangling ==
    /\ block' = [block EXCEPT
          !.frees0 = IF block.pwork0 # 0
                     THEN [@ EXCEPT ![block.pwork0] = @ + 1] ELSE @,
          !.frees1 = IF block.pwork1 # 0
                     THEN [@ EXCEPT ![block.pwork1] = @ + 1] ELSE @]
    /\ host' = [NoHost EXCEPT !.op = "mdlTerminate",
                              !.tracker = block.pwork0,
                              !.image = block.pwork1]
    /\ UNCHANGED members
    /\ UNCHANGED call_vars
    /\ UNCHANGED other

\* mdlTerminate: each work pointer that is not null is deleted and set to
\* nullptr
MdlTerminate ==
    /\ block' = [block EXCEPT
          !.pwork0 = 0,
          !.pwork1 = 0,
          !.frees0 = IF block.pwork0 # 0
                     THEN [@ EXCEPT ![block.pwork0] = @ + 1] ELSE @,
          !.frees1 = IF block.pwork1 # 0
                     THEN [@ EXCEPT ![block.pwork1] = @ + 1] ELSE @]
    /\ host' = [NoHost EXCEPT !.op = "mdlTerminate",
                              !.tracker = block.pwork0,
                              !.image = block.pwork1]
    /\ UNCHANGED members
    /\ UNCHANGED call_vars
    /\ UNCHANGED other

\* the steps of a started block, and direct calls of the methods of the
\* block's tracker between them
NextHost ==
    \/ NextOver(VelImages, MainHeights, MainDisplacements)
    \/ \E dt_in \in BlockDeltaTs, img \in BlockImages :
          MdlOutputs(dt_in, img, Displacements)

HostSpec == MdlStart({MaxCorners}) /\ [][NextHost]_vars

\* the callbacks of the block in any order and number
NextBlock ==
    \/ \E dt_in \in BlockDeltaTs, img \in BlockImages :
          MdlOutputs(dt_in, img, MainDisplacements)
    \/ MdlTerminate
    \/ MdlStartAgain

BlockSpec == MdlStart(PortCols) /\ [][NextBlock]_vars

\* the members of the tracker the variables describe, as the record in
\* which a second instance is held
ThisTracker(id) ==
    [id |-> id, method |-> method, delta_t |-> delta_t,
     focal_length |-> focal_length, cmos_width |-> cmos_width,
     cmos_height |-> cmos_height, fov_h |-> fov_h, fov_v |-> fov_v,
     img_width |-> img_width, img_height |-> img_height,
     debug_count |-> debug_count, last_im |-> last_im,
     features |-> features, fresh |-> fresh]

\* a second OpticalFlowTracking is constructed (a sensor of 4.8 mm x 3.6 mm
\* behind the same lens); the first one is the one the variables describe
ConstructSecond(dt) ==
    /\ other = NoOther
    /\ other' = [id |-> 2, method |-> OPTICAL_FLOW_LUCAS_KANADE,
                 delta_t |-> dt, focal_length |-> 4000, cmos_width |-> 4800,
                 cmos_height |-> 3600, fov_h |-> Fov(4800, 4000),
                 fov_v |-> Fov(3600, 4000), img_width |-> 0,
                 img_height |-> 0, debug_count |-> 0, last_im |-> NoImage,
                 features |-> <<>>, fresh |-> TRUE]
    /\ UNCHANGED members
    /\ UNCHANGED call_vars
    /\ UNCHANGED <<host, block>>

\* mutant: _debug_count is one counter for all instances
Switch_shared ==
    /\ other # NoOther
    /\ other' = ThisTracker(3 - other.id)
    /\ method' = other.method
    /\ delta_t' = other.delta_t
    /\ focal_length' = other.focal_length
    /\ cmos_width' = other.cmos_width
    /\ cmos_height' = other.cmos_height
    /\ fov_h' = other.fov_h
    /\ fov_v' = other.fov_v
    /\ img_width' = other.img_width
    /\ img_height' = other.img_height
    /\ UNCHANGED debug_count
    /\ last_im' = other.last_im
    /\ features' = other.features
    /\ fresh' = other.fresh
    /\ pre' = [delta_t |-> other.delta_t, img_width |-> other.img_width,
               img_height |-> other.img_height,
               debug_count |-> debug_count,
               last_im |-> other.last_im, features |-> other.features,
               fresh |-> other.fresh]
    /\ arg' = NoArg
    /\ lk' = NoLK
    /\ locals' = NoLocals
    /\ ret' = Returned("none", FALSE, <<>>, <<>>, <<>>, <<>>, FALSE)
    /\ UNCHANGED <<host, block>>

\* the caller turns to the other instance: every member is a non-static
\* data member, so each instance has all of them for itself, and the
\* variables now describe the instance that was held aside
Switch ==
    /\ other # NoOther
    /\ other' = ThisTracker(3 - other.id)
    /\ method' = other.method
    /\ delta_t' = other.delta_t
    /\ focal_length' = other.focal_length
    /\ cmos_width' = other.cmos_width
    /\ cmos_height' = other.cmos_height
    /\ fov_h' = other.fov_h
    /\ fov_v' = other.fov_v
    /\ img_width' = other.img_width
    /\ img_height' = other.img_height
    /\ debug_count' = other.debug_count
    /\ last_im' = other.last_im
    /\ features' = other.features
    /\ fresh' = other.fresh
    /\ pre' = [delta_t |-> other.delta_t, img_width |-> other.img_width,
               img_height |-> other.img_height,
               debug_count |-> other.debug_count,
               last_im |-> other.last_im, features |-> other.features,
               fresh |-> other.fresh]
    /\ arg' = NoArg
    /\ lk' = NoLK
    /\ locals' = NoLocals
    /\ ret' = Returned("none", FALSE, <<>>, <<>>, <<>>, <<>>, FALSE)
    /\ UNCHANGED <<host, block>>

\* whole calls on two instances, in any interleaving
NextPair ==
    \/ NextOver(BlockImages, MainHeights, MainDisplacements)
    \/ \E dt \in DeltaTs : ConstructSecond(dt)
    \/ Switch

PairSpec == Init /\ [][NextPair]_vars

\* the same runs on a tracker constructed with any camera parameters
ConfigSpec == InitAnyConfig /\ [][NextVel]_vars

(***************************************************************************)
(* Helpers of the properties.                                              *)
(***************************************************************************)
\* the last call was calculateRealVel and it returned (no exception)
CalcReturned == ret.op = "calc" /\ ~ret.threw

\* the last call was calculateRealVel and it took the tracking path
CalcTracked == ret.op = "calc" /\ lk.ran

\* what feature detection finds in the frame passed to the last call
DetectedInArg == Take(CornerCandidates(arg.img.scene), MaxCorners)

\* the indices of the points whose tracking status is success, ascending
Survivors(status) ==
    SelectSeq([i \in 1..Len(status) |-> i], LAMBDA i : status[i] # 0)

AllEmpty(r) ==
    /\ r.v_est_x = <<>>
    /\ r.v_est_y = <<>>
    /\ r.new_features = <<>>
    /\ r.old_features = <<>>

(***************************************************************************)
(* Properties.                                                             *)
(***************************************************************************)
\* C1: the first calculateRealVel call on a freshly constructed tracker
\* does no tracking and returns four empty sequences with success = true;
\* afterwards _has_features() holds exactly when detection on the frame
\* found at least one point.
C1_FirstCall ==
    (ret.op = "calc" /\ pre.fresh) =>
        /\ ~lk.ran
        /\ ~ret.threw
        /\ AllEmpty(ret)
        /\ ret.success = TRUE
        /\ HasFeatures <=> (CornerCandidates(arg.img.scene) # <<>>)

C1_Witness ==
    /\ ret.op = "calc"
    /\ pre.fresh
    /\ HasFeatures
    /\ arg.img.channels = 3

\* C2 as stated: the feature set and the reference frame are both empty or
\* both non-empty in every reachable state.
C2_BothOrNeither ==
    \/ features = <<>> /\ Empty(last_im)
    \/ features # <<>> /\ ~Empty(last_im)

\* C2 as amended: a non-empty feature set is never held without a
\* reference frame (the converse fails: a frame is held with no features
\* after a detection that found none).
C2_FeaturesImplyFrame ==
    features # <<>> => (~Empty(last_im) /\ last_im.channels = 1)

C2_Witness ==
    /\ features # <<>>
    /\ ~Empty(last_im)
    /\ ret.op = "extract"
    /\ Empty(pre.last_im)

\* C3 as stated: _has_features() is false while no reference frame is held
\* and true in every state in which one is held.
C3_TrueOnceSeeded ==
    /\ Empty(last_im) => ~HasFeatures
    /\ ~Empty(last_im) => HasFeatures

\* C3 as amended: _has_features() is false while no reference frame is
\* held; after extractFeatures or a returned calculateRealVel it is true
\* exactly when that call's detection found a point (so it can turn false
\* again), and _set_delta_t_ or a call left by an exception does not change
\* it.
C3_HasFeaturesFollowsDetection ==
    /\ Empty(last_im) => ~HasFeatures
    /\ [][ /\ Empty(last_im') => ~HasFeatures'
           /\ (ret'.op = "set_delta_t" \/ ret'.threw)
                 => (HasFeatures' <=> HasFeatures)
           /\ (ret'.op \in {"extract", "calc"} /\ ~ret'.threw)
                 => (HasFeatures' <=> CornerCandidates(arg'.img.scene) # <<>>)
         ]_vars

C3_Witness ==
    /\ ~Empty(last_im)
    /\ ~HasFeatures
    /\ pre.features # <<>>
    /\ ret.op = "extract"

\* C4: when the tracking step raises a library error, calculateRealVel
\* still returns to its caller, with empty sequences and success = true.
C4_ErrorContained ==
    (ret.op = "calc" /\ lk.threw) =>
        /\ ~ret.threw
        /\ AllEmpty(ret)
        /\ ret.success = TRUE

\* C5: on the tracking path the returned new locations are parallel to the
\* old locations: same length, and the i-th new location is the tracked
\* location of the feature whose old location is the i-th old location.
C5_NewParallelToOld ==
    (CalcTracked /\ ~ret.threw) =>
        LET idx == Survivors(lk.status)
        IN  /\ Len(ret.new_features) = Len(ret.old_features)
            /\ Len(ret.new_features) = Len(idx)
            /\ \A k \in 1..Len(idx) : ret.new_features[k] = lk.new[idx[k]]

\* C6: the velocity-x, velocity-y and old-location sequences hold exactly
\* one entry per feature with status success, in the order of the previous
\* feature set, and none for a feature with status failure.
C6_OneEntryPerSurvivor ==
    CalcReturned =>
        LET idx == Survivors(lk.status)
        IN  /\ Len(ret.v_est_x) = Len(idx)
            /\ Len(ret.v_est_y) = Len(idx)
            /\ Len(ret.old_features) = Len(idx)
            /\ \A k \in 1..Len(idx) :
                 LET old == pre.features[idx[k]]
                     new == lk.new[idx[k]]
                 IN  /\ ret.old_features[k] = old
                     /\ locals.vels_x[k] = PixelVel(new[2] - old[2], pre.delta_t)
                     /\ locals.vels_y[k] = PixelVel(-(new[1] - old[1]), pre.delta_t)
                     /\ ret.v_est_x[k] =
                          RealVel(arg.height,
                                  AngularVel(locals.vels_x[k], fov_v, pre.img_height),
                                  pre.delta_t)
                     /\ ret.v_est_y[k] =
                          RealVel(arg.height,
                                  AngularVel(locals.vels_y[k], fov_h, pre.img_width),
                                  pre.delta_t)

C6_Witness ==
    /\ CalcReturned
    /\ Len(lk.status) = 2
    /\ lk.status[1] = 0
    /\ lk.status[2] = 1
    /\ lk.new[2] # pre.features[2]

\* C7: no sequence returned by calculateRealVel is longer than the feature
\* set held before the call, nor longer than the extraction cap, and the
\* feature set itself never exceeds the cap.
C7_SurvivorCountBound ==
    /\ Len(features) <= MaxCorners
    /\ ret.op = "calc" =>
         \A q \in {ret.v_est_x, ret.v_est_y, ret.new_features, ret.old_features} :
            /\ Len(q) <= Len(pre.features)
            /\ Len(q) <= MaxCorners

C7_Witness ==
    /\ CalcReturned
    /\ Len(CornerCandidates(pre.last_im.scene)) > MaxCorners
    /\ Len(pre.features) = MaxCorners
    /\ Len(ret.v_est_x) = MaxCorners

\* C8: after a calculateRealVel call that returned, on either path,
\* _has_features() holds exactly when detection on the frame passed to that
\* call found a point, whatever the earlier frame held.
C8_ReseedGuarantee ==
    CalcReturned => (HasFeatures <=> DetectedInArg # <<>>)

C8_Witness ==
    /\ CalcReturned
    /\ lk.ran
    /\ pre.features # <<>>
    /\ ~HasFeatures

\* C9: a calculateRealVel call on the tracking path that returns leaves
\* the gray frame just passed as the reference frame and exactly the
\* features detected in it as the feature set, however many tracked points
\* survived.
C9_WholesaleReplace ==
    (CalcReturned /\ ~Empty(pre.last_im)) =>
        /\ last_im = [channels |-> 1, cols |-> arg.img.cols,
                      rows |-> arg.img.rows, scene |-> arg.img.scene]
        /\ features = DetectedInArg

C9_Witness ==
    /\ CalcReturned
    /\ ~Empty(pre.last_im)
    /\ pre.features # <<>>
    /\ ret.old_features = <<>>
    /\ arg.img.channels = 3
    /\ features # <<>>
    /\ features # pre.features
    /\ features # ret.new_features

\* C10: the tracker starts without a reference frame; _set_delta_t_ and
\* calls whose detection finds nothing leave it without one; it acquires
\* one only in an extractFeatures or calculateRealVel call whose detection
\* is non-empty; and once it holds one it never loses it.
C10_Lifecycle ==
    /\ Empty(last_im)
    /\ [][ /\ (Empty(last_im) /\ ret'.op = "set_delta_t") => Empty(last_im')
           /\ (Empty(last_im) /\ CornerCandidates(arg'.img.scene) = <<>>)
                 => Empty(last_im')
           /\ (Empty(last_im) /\ ~Empty(last_im'))
                 => /\ ret'.op \in {"extract", "calc"}
                    /\ CornerCandidates(arg'.img.scene) # <<>>
                    /\ features' # <<>>
           /\ ~Empty(last_im) => ~Empty(last_im')
         ]_vars

C10_Witness ==
    /\ ~Empty(last_im)
    /\ ~Empty(pre.last_im)
    /\ features = <<>>
    /\ ret.op = "calc"
    /\ debug_count > 1

\* the displacement <<dx, dy>> of the k-th surviving point of the last call
SurvivorMove(k) ==
    LET i == Survivors(lk.status)[k]
    IN  <<lk.new[i][1] - pre.features[i][1], lk.new[i][2] - pre.features[i][2]>>

\* C11: for every successfully tracked feature with displacement (dx, dy)
\* and frame interval T the pixel velocity is vx = dy / T, vy = -dx / T; a
\* pure vertical shift of 8 px with T = 0.1 s gives vx = 80 px/s, vy = 0,
\* and with height 2 a nonzero forward and a zero lateral real velocity.
C11_SignConvention ==
    CalcReturned =>
        \A k \in 1..Len(Survivors(lk.status)) :
            LET dx == SurvivorMove(k)[1]
                dy == SurvivorMove(k)[2]
            IN  /\ locals.vels_x[k] = RatNorm(10 * dy, pre.delta_t)
                /\ locals.vels_y[k] = RatNorm(-(10 * dx), pre.delta_t)
                /\ (dx = 0 /\ dy = 8 /\ pre.delta_t = 1) =>
                      /\ locals.vels_x[k] = <<80, 1>>
                      /\ locals.vels_y[k] = <<0, 1>>
                      /\ arg.height = 2 =>
                            /\ ret.v_est_x[k] # VZero
                            /\ ret.v_est_y[k] = VZero

C11_Witness ==
    /\ CalcReturned
    /\ pre.delta_t = 1
    /\ arg.height = 2
    /\ Len(locals.vels_x) = 2
    /\ SurvivorMove(1) = <<0, 8>>
    /\ locals.vels_x[1] = <<80, 1>>
    /\ SurvivorMove(2) = <<-3, 0>>
    /\ locals.vels_y[2] = <<30, 1>>

\* C12: the forward real velocity is height * tan((vx * vertical_fov /
\* frame_height) * T) / T and the lateral one height * tan((vy *
\* horizontal_fov / frame_width) * T) / T, frame_width and frame_height
\* being the pixel dimensions of the image being processed.
C12_Conversion ==
    CalcReturned =>
        \A k \in 1..Len(Survivors(lk.status)) :
            /\ ret.v_est_x[k] =
                 RealVel(arg.height,
                         AngularVel(locals.vels_x[k], fov_v, arg.img.rows),
                         pre.delta_t)
            /\ ret.v_est_y[k] =
                 RealVel(arg.height,
                         AngularVel(locals.vels_y[k], fov_h, arg.img.cols),
                         pre.delta_t)

\* a 64x48 frame, T = 0.1 s, height 2: a point moved down by 8 px and one
\* moved left by 3 px
C12_Witness ==
    /\ CalcReturned
    /\ pre.delta_t = 1
    /\ arg.height = 2
    /\ arg.img.cols = 64
    /\ arg.img.rows = 48
    /\ Len(ret.v_est_x) = 2
    /\ SurvivorMove(1) = <<0, 8>>
    /\ ret.v_est_x[1] = [coef |-> <<20, 1>>, q |-> <<1, 6>>, fov |-> fov_v]
    /\ SurvivorMove(2) = <<-3, 0>>
    /\ ret.v_est_y[2] = [coef |-> <<20, 1>>, q |-> <<3, 64>>, fov |-> fov_h]

\* C13: whenever a reference frame is held, _img_width and _img_height are
\* the pixel dimensions of that frame, also when successive frames differ
\* in size.
C13_DimsOfStoredFrame ==
    ~Empty(last_im) => (img_width = last_im.cols /\ img_height = last_im.rows)

\* a frame of another size than the reference: extractFeatures replaced the
\* reference by it, or calculateRealVel was handed it and raised
C13_Witness ==
    /\ ~Empty(pre.last_im)
    /\ arg.img.cols # pre.last_im.cols
    /\ \/ /\ ret.op = "extract"
          /\ last_im = CvtGray(arg.img)
          /\ debug_count > 0
       \/ /\ ret.op = "calc"
          /\ ret.threw
          /\ pre.features # <<>>
          /\ last_im = pre.last_im

\* C14: no tracker exists with a non-positive focal length, sensor width or
\* sensor height: constructing one with such a value is rejected.
C14_ConfigRejected ==
    /\ focal_length > 0
    /\ cmos_width > 0
    /\ cmos_height > 0

\* C15: a surviving feature whose new location equals its old location gets
\* real velocity 0 on both axes, for any height and frame interval (so a
\* frame in which no tracked point moved yields all-zero velocities).
C15_ZeroMotion ==
    CalcReturned =>
        \A k \in 1..Len(Survivors(lk.status)) :
            SurvivorMove(k) = <<0, 0>> =>
                (ret.v_est_x[k] = VZero /\ ret.v_est_y[k] = VZero)

C15_Witness ==
    /\ CalcReturned
    /\ arg.height = -1
    /\ pre.delta_t = 2
    /\ Len(ret.v_est_x) = 2
    /\ SurvivorMove(1) = <<0, 0>>
    /\ SurvivorMove(2) = <<0, 0>>
    /\ ret.v_est_y = <<VZero, VZero>>

\* C16: with the motion, frame dimensions, fields of view and frame interval
\* fixed, both real velocity components are the height times the velocity at
\* height 1, and doubling the height doubles them; zero and negative heights
\* are scaled the same way.
C16_HeightScaling ==
    CalcReturned =>
        \A k \in 1..Len(Survivors(lk.status)) :
            LET avx == AngularVel(locals.vels_x[k], fov_v, pre.img_height)
                avy == AngularVel(locals.vels_y[k], fov_h, pre.img_width)
            IN  /\ ret.v_est_x[k] = VScale(arg.height, RealVel(1, avx, pre.delta_t))
                /\ ret.v_est_y[k] = VScale(arg.height, RealVel(1, avy, pre.delta_t))
                /\ RealVel(2 * arg.height, avx, pre.delta_t) = VScale(2, ret.v_est_x[k])
                /\ RealVel(2 * arg.height, avy, pre.delta_t) = VScale(2, ret.v_est_y[k])

C16_Witness ==
    /\ CalcReturned
    /\ arg.height = -1
    /\ Len(ret.v_est_x) = 2
    /\ ret.v_est_x[1] # VZero
    /\ ret.v_est_y[2] # VZero

\* the pixel and real velocities of the call that just returned are the ones
\* a frame interval of dt gives
VelocitiesUse(dt) ==
    \A k \in 1..Len(Survivors(lk.status)) :
        /\ locals.vels_x[k] = RatNorm(10 * SurvivorMove(k)[2], dt)
        /\ locals.vels_y[k] = RatNorm(-(10 * SurvivorMove(k)[1]), dt)
        /\ ret.v_est_x[k] =
             RealVel(arg.height,
                     AngularVel(locals.vels_x[k], fov_v, pre.img_height), dt)
        /\ ret.v_est_y[k] =
             RealVel(arg.height,
                     AngularVel(locals.vels_y[k], fov_h, pre.img_width), dt)

\* C17: _set_delta_t_(s) changes _delta_t and nothing else; a
\* calculateRealVel call made right after it finds _delta_t = s, and every
\* call divides by and converts with the _delta_t it finds; a step of the
\* block leaves _delta_t at its delta-time input and computes that step's
\* velocities with that input.
C17_FrameInterval ==
    /\ [](CalcReturned => VelocitiesUse(pre.delta_t))
    /\ []((host.op = "mdlOutputs" /\ host.called) =>
              /\ delta_t = host.delta_t_in
              /\ CalcReturned => VelocitiesUse(host.delta_t_in))
    /\ [][ /\ (ret'.op = "set_delta_t") =>
                 /\ delta_t' = arg'.delta_t
                 /\ UNCHANGED <<method, focal_length, cmos_width, cmos_height,
                                fov_h, fov_v, img_width, img_height,
                                debug_count, last_im, features>>
           /\ (ret.op = "set_delta_t" /\ ret'.op = "calc" /\ host'.op = "none") =>
                 pre'.delta_t = arg.delta_t
         ]_vars

C17_Witness ==
    /\ host.op = "mdlOutputs"
    /\ host.delta_t_in = 2
    /\ host.delta_t_before = 10
    /\ delta_t = 2
    /\ CalcReturned
    /\ Len(host.vel_x) = 2
    /\ locals.vels_x[1] = <<40, 1>>
    /\ host.vel_x[1] # VZero

\* C18: the fields of view are 2 * atan(sensor_size / (2 * focal_length)) as
\* the constructor computed them, and no later call changes them, the
\* method, the focal length or the sensor dimensions.
C18_FovFixed ==
    /\ [](fov_h = [two_atan_of |-> <<4, 5>>])
    /\ [](fov_v = [two_atan_of |-> <<3, 5>>])
    /\ [][UNCHANGED <<method, focal_length, cmos_width, cmos_height,
                      fov_h, fov_v>>]_vars

C18_Witness ==
    /\ CalcReturned
    /\ lk.ran
    /\ ret.v_est_x # <<>>
    /\ method = OPTICAL_FLOW_LUCAS_KANADE
    /\ fov_h = [two_atan_of |-> <<4, 5>>]
    /\ fov_v = [two_atan_of |-> <<3, 5>>]

\* C19: an extractFeatures call whose detection finds nothing returns
\* normally and leaves _last_im, _img_width and _img_height as they were.
C19_EmptyDetectionKeepsFrame ==
    (ret.op = "extract" /\ DetectedInArg = <<>>) =>
        /\ ~ret.threw
        /\ last_im = pre.last_im
        /\ img_width = pre.img_width
        /\ img_height = pre.img_height

C19_Witness ==
    /\ ret.op = "extract"
    /\ DetectedInArg = <<>>
    /\ ~Empty(pre.last_im)
    /\ arg.img.cols # last_im.cols

\* C20: after extractFeatures(image) the feature set is exactly what was
\* detected in that image (empty when nothing was); on a non-empty detection
\* the reference frame is the gray image and _img_width, _img_height are
\* its dimensions.
C20_ExtractReplaces ==
    ret.op = "extract" =>
        /\ features = DetectedInArg
        /\ features # <<>> =>
              /\ last_im = [channels |-> 1, cols |-> arg.img.cols,
                            rows |-> arg.img.rows, scene |-> arg.img.scene]
              /\ img_width = arg.img.cols
              /\ img_height = arg.img.rows

C20_Witness ==
    /\ ret.op = "extract"
    /\ arg.img.channels = 3
    /\ features # <<>>
    /\ pre.features # <<>>
    /\ pre.features # features
    /\ pre.last_im.cols # last_im.cols

\* the last callback was a step of the block that called the tracker
StepCalled == host.op = "mdlOutputs" /\ host.called

\* every offset of the velocity output port
OutputOffsets == 0..(block.num_rows * block.num_cols - 1)

\* C21: a call on one tracker instance, and the construction of one, leaves
\* every member of the other instance as it was, so that the other
\* instance, when the caller turns to it, is in the state its own last call
\* left it in, whatever was called on the first one in between.
C21_InstancesIndependent ==
    [][ /\ (other # NoOther /\ other' # NoOther /\ other'.id = other.id) =>
              other' = other
        /\ (other = NoOther /\ other' # NoOther) =>
              (UNCHANGED members /\ UNCHANGED fresh)
        /\ (other # NoOther /\ other'.id # other.id) =>
              /\ \A i \in {other.id} : ThisTracker(i)' = other
              /\ other' = ThisTracker(other'.id)
      ]_vars

\* the second instance has been called twice, the first one not at all
C21_Witness ==
    /\ other # NoOther
    /\ other.id = 1
    /\ other.fresh
    /\ other.features = <<>>
    /\ CalcReturned
    /\ lk.ran
    /\ debug_count = 1
    /\ features # <<>>
    /\ fov_h # other.fov_h

C23_TruncateAndPad ==
    StepCalled =>
        LET n == Len(host.vel_x)
            N == block.num_cols
            valid == IF n < N THEN n ELSE N
        IN  /\ host.valid = valid
            /\ block.num_features = valid
            /\ \A i \in 0..(valid - 1) :
                  /\ block.out[2 * i] = host.vel_x[i + 1]
                  /\ block.out[2 * i + 1] = host.vel_y[i + 1]
            /\ \A i \in valid..(N - 1) :
                  /\ block.out[2 * i] = VZero
                  /\ block.out[2 * i + 1] = VZero
            /\ host.writes \subseteq 0..(2 * N - 1)

\* a step with more velocities than columns
C23_Witness ==
    /\ StepCalled
    /\ Len(host.vel_x) = 2
    /\ block.num_cols = 1
    /\ block.num_features = 1
    /\ host.vel_x[1] # VZero
    /\ block.out[0] = host.vel_x[1]

\* C24: mdlOutputs calls the tracker only through work pointers that are
\* set and whose objects have not been deleted; with a null work pointer it
\* sets the error status and returns, the tracker not called and no output
\* written.
C24_NoNullOrFreedUse ==
    /\ [](host.op = "mdlOutputs" =>
             /\ host.called <=> (host.tracker # 0 /\ host.image # 0)
             /\ host.called =>
                   /\ block.frees0[host.tracker] = 0
                   /\ block.frees1[host.image] = 0
             /\ ~host.called =>
                   /\ host.error_set
                   /\ block.error
                   /\ host.writes = {})
    /\ [][(host'.op = "mdlOutputs" /\ ~host'.called) =>
             /\ UNCHANGED members
             /\ UNCHANGED call_vars
             /\ block'.out = block.out
             /\ block'.num_features = block.num_features]_vars

C24_Witness ==
    /\ host.op = "mdlOutputs"
    /\ ~host.called
    /\ block.error
    /\ block.frees0 = <<1>>
    /\ block.frees1 = <<1>>
    /\ host.tracker = 0
    /\ host.image = 0

\* C25: no allocation of mdlStart is deleted twice; a work pointer that is
\* set points to an object not yet deleted; mdlTerminate leaves both work
\* pointers null and a repeated mdlTerminate deletes nothing; and across
\* the adapter lifecycle (every mdlStart at the start of a run, the run
\* before terminated) every tracker and image buffer allocated so far has
\* been deleted exactly once when mdlTerminate has run.
C25_NoLeakNoDoubleFree ==
    /\ [](/\ Len(block.frees0) = block.runs
          /\ Len(block.frees1) = block.runs
          /\ \A k \in 1..block.runs :
                /\ block.frees0[k] <= 1
                /\ block.frees1[k] <= 1
          /\ block.pwork0 # 0 => block.frees0[block.pwork0] = 0
          /\ block.pwork1 # 0 => block.frees1[block.pwork1] = 0
          /\ host.op = "mdlTerminate" =>
                /\ block.pwork0 = 0
                /\ block.pwork1 = 0
          /\ (host.op = "mdlTerminate" /\ block.in_order) =>
                \A k \in 1..block.runs :
                   /\ block.frees0[k] = 1
                   /\ block.frees1[k] = 1)
    /\ [][(host.op = "mdlTerminate" /\ host'.op = "mdlTerminate") =>
             /\ block'.frees0 = block.frees0
             /\ block'.frees1 = block.frees1]_vars

\* a repeated mdlTerminate at the end of the second run of a lifecycle
C25_Witness ==
    /\ host.op = "mdlTerminate"
    /\ host.tracker = 0
    /\ block.in_order
    /\ block.runs = 2
    /\ block.frees0 = <<1, 1>>
    /\ block.frees1 = <<1, 1>>

\* C26: a non-empty feature set is exactly what feature detection finds in
\* the stored reference frame (so _has_features() implies a frame is held).
C26_FeaturesOfStoredFrame ==
    HasFeatures =>
        /\ ~Empty(last_im)
        /\ last_im.channels = 1
        /\ features = GoodFeaturesToTrack(last_im, MaxCorners)

C26_Witness ==
    /\ CalcReturned
    /\ lk.ran
    /\ HasFeatures
    /\ pre.features # <<>>
    /\ pre.last_im.scene # last_im.scene
    /\ features # pre.features

\* C27: calculateRealVel takes the early return exactly when _last_im is
\* empty at entry; after an extractFeatures call that seeded a fresh
\* tracker the first calculateRealVel call tracks; and with a frame held
\* but no feature the call returns empty sequences with success = true and
\* re-seeds from the new frame.
C27_EarlyReturnIffNoFrame ==
    /\ [](ret.op = "calc" => (lk.ran <=> ~Empty(pre.last_im)))
    /\ []((ret.op = "calc" /\ ~Empty(pre.last_im) /\ pre.features = <<>>) =>
             /\ ~ret.threw
             /\ AllEmpty(ret)
             /\ ret.success
             /\ features = DetectedInArg
             /\ last_im = CvtGray(arg.img))
    /\ [][(ret.op = "extract" /\ pre.fresh /\ HasFeatures /\ ret'.op = "calc")
             => lk'.ran]_vars

\* C28: while a reference frame is held _img_width and _img_height are
\* strictly positive, so the conversion of calculateRealVel never divides
\* by zero.
C28_PositiveDims ==
    /\ ~Empty(last_im) => (img_width > 0 /\ img_height > 0)
    /\ CalcTracked => (pre.img_width > 0 /\ pre.img_height > 0)

C28_Witness ==
    /\ CalcReturned
    /\ lk.ran
    /\ ret.v_est_x # <<>>
    /\ pre.img_height > 0
    /\ pre.img_width > 0
    /\ debug_count > 1
    /\ img_height = 32

\* C29: a calculateRealVel call left by a library exception leaves
\* _last_im, _features, _img_width, _img_height and _delta_t as they were,
\* and a following calculateRealVel call on a frame of the size of the
\* reference tracks the unchanged features and returns normally.
C29_FailureLeavesState ==
    /\ []((ret.op = "calc" /\ ret.threw) =>
             /\ last_im = pre.last_im
             /\ features = pre.features
             /\ img_width = pre.img_width
             /\ img_height = pre.img_height
             /\ delta_t = pre.delta_t)
    /\ [][(/\ ret.op = "calc" /\ ret.threw
           /\ ret'.op = "calc"
           /\ arg'.img.cols = last_im.cols
           /\ arg'.img.rows = last_im.rows)
             => /\ lk'.ran
                /\ ~ret'.threw
                /\ ret'.success
                /\ Len(lk'.new) = Len(pre.features)]_vars

====
